---------------------------- MODULE Spec2Model ----------------------------
(***************************************************************************)
(* Expense tracker (src/storage.ts): the persistence adapter loadData /    *)
(* saveData, the App component's state (expenses, weeklyTarget,            *)
(* monthlyTarget, activePage), its two effects (load on mount, save after  *)
(* every render whose state changed), the handlers of the three pages and  *)
(* the aggregates computed for the summary page.                           *)
(*                                                                         *)
(* Representation.                                                         *)
(*  - A text typed into an input is a sequence of one-character strings.   *)
(*  - A JavaScript number is an integer (whole rupees; "." is not in the   *)
(*    modelled alphabet); parseFloat returns <<>> for NaN and <<n>> for n. *)
(*  - A date string "YYYY-MM-DD" is the tuple <<y, m, d>>; the empty       *)
(*    string, which a cleared date input yields, is <<>>.                  *)
(*  - A JSON value is tagged: JNum, JStr, JArr, JNull; a property that an  *)
(*    object lacks reads as Undefined.                                     *)
(***************************************************************************)
EXTENDS Integers, Sequences, FiniteSets, TLC

VARIABLES
    storage,        \* localStorage[STORAGE_KEY]
    expenses,       \* useState([])  (line 311)
    weeklyTarget,   \* useState(0)   (line 312)
    monthlyTarget,  \* useState(0)   (line 313)
    activePage,     \* useState('summary') (line 314)
    clock,          \* Date.now(), the source of ids
    today,          \* new Date(), the calendar day of "now"
    phase,          \* position of the run: "boot" before the mount effects, "running" after
    lastOp,         \* history: the last handler that ran
    wrote,          \* history: whether that handler's save effect called setItem
    result          \* history: the value a pure function returned

vars == <<storage, expenses, weeklyTarget, monthlyTarget, activePage, clock,
          today, phase, lastOp, wrote, result>>

-----------------------------------------------------------------------------
(* Bounds of the model *)

MaxExpenses == 2    \* adds are offered while the list is shorter than this
MaxClock == 2       \* Date.now() ranges over 1..MaxClock
MaxAggLen == 2      \* longest expense list given to the aggregates
MaxDays == 29       \* number of consecutive days "now" ranges over

-----------------------------------------------------------------------------
(* JavaScript and JSON values *)

Undefined == [t |-> "undefined"]
JNull == [t |-> "null"]
JNum(n) == [t |-> "number", v |-> n]
JStr(s) == [t |-> "string", v |-> s]
JArr(a) == [t |-> "array", v |-> a]

\* ToBoolean of a JSON value, as the || operator applies it
Truthy(x) ==
    CASE x.t = "undefined" -> FALSE
      [] x.t = "null" -> FALSE
      [] x.t = "number" -> x.v # 0
      [] x.t = "string" -> x.v # <<>>
      [] x.t = "array" -> TRUE

\* a || b
OrElse(a, b) == IF Truthy(a) THEN a ELSE b

DigitChars == <<"0", "1", "2", "3", "4", "5", "6", "7", "8", "9">>

IsDigit(c) == \E i \in 1..Len(DigitChars) : DigitChars[i] = c

DigitVal(c) == (CHOOSE i \in 1..Len(DigitChars) : DigitChars[i] = c) - 1

\* length of the longest prefix of text made of digits
RECURSIVE DigitPrefixLen(_)
DigitPrefixLen(text) ==
    IF text = <<>> \/ ~IsDigit(Head(text)) THEN 0
    ELSE 1 + DigitPrefixLen(Tail(text))

\* value of a sequence of digits
RECURSIVE DigitsValue(_)
DigitsValue(ds) ==
    IF ds = <<>> THEN 0
    ELSE 10 * DigitsValue(SubSeq(ds, 1, Len(ds) - 1)) + DigitVal(ds[Len(ds)])

NaN == <<>>

\* parseFloat: an optional sign, then the longest run of digits; what follows
\* is ignored; NaN when no digit is there
ParseFloat(text) ==
    LET neg == text # <<>> /\ Head(text) = "-"
        body == IF neg THEN Tail(text) ELSE text
        n == DigitPrefixLen(body)
        mag == DigitsValue(SubSeq(body, 1, n))
    IN  IF n = 0 THEN NaN ELSE IF neg THEN <<0 - mag>> ELSE <<mag>>

IsNaN(p) == p = NaN

\* parseFloat(value) || 0
ParseFloatOr0(text) ==
    LET p == ParseFloat(text)
    IN  IF IsNaN(p) \/ p[1] = 0 THEN 0 ELSE p[1]

-----------------------------------------------------------------------------
(* Calendar: what Date computes from a year, a month and a day *)

IsLeap(y) == (y % 4 = 0 /\ y % 100 # 0) \/ y % 400 = 0

DaysInMonth(y, m) ==
    IF m = 2 THEN (IF IsLeap(y) THEN 29 ELSE 28)
    ELSE IF m \in {4, 6, 9, 11} THEN 30 ELSE 31

\* days of year y that precede its month m
DaysBeforeMonth(y, m) ==
    LET common == <<0, 31, 59, 90, 120, 151, 181, 212, 243, 273, 304, 334>>
    IN  common[m] + (IF m > 2 /\ IsLeap(y) THEN 1 ELSE 0)

\* number of leap years in 1..n
LeapsThrough(n) == (n \div 4) - (n \div 100) + (n \div 400)

\* MakeDay: days from 1970-01-01 to day d of month m of year y; d may lie
\* outside the month (setDate(0) is the last day of the month before)
MakeDay(y, m, d) ==
    365 * (y - 1970) + (LeapsThrough(y - 1) - LeapsThrough(1969))
        + DaysBeforeMonth(y, m) + (d - 1)

\* Date.prototype.getDay of a day number: 0 is Sunday (1970-01-01 was a Thursday)
GetDay(n) == (n + 4) % 7

\* new Date(s).getTime(), in days: NaN for the empty string
GetTime(date) ==
    IF date = <<>> THEN NaN ELSE <<MakeDay(date[1], date[2], date[3])>>

-----------------------------------------------------------------------------
(* Array.prototype.sort with the comparator of handleAddExpense *)

\* (a, b) => new Date(b.date).getTime() - new Date(a.date).getTime()
Comparator(a, b) ==
    LET ta == GetTime(a.date)
        tb == GetTime(b.date)
    IN  IF IsNaN(ta) \/ IsNaN(tb) THEN NaN ELSE <<tb[1] - ta[1]>>

\* SortCompare: a comparator result of NaN counts as +0
SortCompare(a, b) ==
    LET v == Comparator(a, b)
    IN  IF IsNaN(v) THEN 0 ELSE v[1]

\* the comparator is a consistent comparator for the elements of list
ConsistentComparator(list) ==
    \A i, j \in 1..Len(list) :
        SortCompare(list[i], list[j]) = 0
            => \A k \in 1..Len(list) :
                   SortCompare(list[j], list[k]) = 0 => SortCompare(list[i], list[k]) = 0

\* e placed after every element of the sorted s that does not sort after it
RECURSIVE InsertSorted(_, _)
InsertSorted(s, e) ==
    IF s = <<>> THEN <<e>>
    ELSE IF SortCompare(Head(s), e) > 0 THEN <<e>> \o s
    ELSE <<Head(s)>> \o InsertSorted(Tail(s), e)

\* the stable sort of list
RECURSIVE StableSort(_)
StableSort(list) ==
    IF list = <<>> THEN <<>>
    ELSE InsertSorted(StableSort(SubSeq(list, 1, Len(list) - 1)), list[Len(list)])

Reorderings(list) ==
    LET n == Len(list)
        bij == {p \in [1..n -> 1..n] : \A i, j \in 1..n : p[i] = p[j] => i = j}
    IN  {[i \in 1..n |-> list[p[i]]] : p \in bij}

\* what sort may leave: the stable sort when the comparator is consistent,
\* otherwise an implementation-defined permutation
SortOutcomes(list) ==
    IF ConsistentComparator(list) THEN {StableSort(list)} ELSE Reorderings(list)

-----------------------------------------------------------------------------
(* Persistence adapter *)

DefaultWeeklyTarget == 500
DefaultMonthlyTarget == 2000

\* JSON.stringify / JSON.parse of one expense object
ExpenseToJSON(e) ==
    [id |-> JNum(e.id), amount |-> JNum(e.amount),
     category |-> JStr(e.category), date |-> JStr(e.date)]

ExpenseFromJSON(j) ==
    [id |-> j.id.v, amount |-> j.amount.v, category |-> j.category.v, date |-> j.date.v]

ExpensesToJSON(list) == [i \in 1..Len(list) |-> ExpenseToJSON(list[i])]

ExpensesFromJSON(arr) == [i \in 1..Len(arr) |-> ExpenseFromJSON(arr[i])]

\* JSON.stringify({ expenses, weeklyTarget, monthlyTarget })
Stringify(data) ==
    [kind |-> "object",
     data |-> [expenses |-> JArr(ExpensesToJSON(data.expenses)),
               weeklyTarget |-> JNum(data.weeklyTarget),
               monthlyTarget |-> JNum(data.monthlyTarget)]]

\* the value localStorage holds under STORAGE_KEY:
\*   absent  - getItem returns null
\*   corrupt - a text JSON.parse rejects
\*   null    - the text "null": data is null and data.expenses throws
\*   object  - the text of an object; data holds its three properties
Absent == [kind |-> "absent"]
Corrupt == [kind |-> "corrupt"]
NullText == [kind |-> "null"]

DefaultData ==
    [expenses |-> <<>>, weeklyTarget |-> DefaultWeeklyTarget,
     monthlyTarget |-> DefaultMonthlyTarget]

\* loadData
LoadData(stored) ==
    IF stored.kind = "absent" THEN DefaultData
    ELSE IF stored.kind \in {"corrupt", "null"} THEN DefaultData
    ELSE LET data == stored.data
         IN  [expenses |->
                  ExpensesFromJSON(OrElse(data.expenses, JArr(<<>>)).v),
              weeklyTarget |->
                  OrElse(data.weeklyTarget, JNum(DefaultWeeklyTarget)).v,
              monthlyTarget |->
                  OrElse(data.monthlyTarget, JNum(DefaultMonthlyTarget)).v]

\* saveData: the value of the store after setItem (taken to succeed)
SaveData(data) == Stringify(data)

\* a guard that looks at the targets only
ShouldSaveTargetsOnly(e, w, m) == w > 0 \/ m > 0

\* the guard of the save effect
ShouldSave(e, w, m) == Len(e) > 0 \/ w > 0 \/ m > 0

\* the save effect after a render with state (e, w, m): the store it leaves
SaveEffect(e, w, m) ==
    IF ShouldSave(e, w, m)
    THEN SaveData([expenses |-> e, weeklyTarget |-> w, monthlyTarget |-> m])
    ELSE storage

-----------------------------------------------------------------------------
(* Inputs *)

CATEGORIES == <<"Food", "Travel", "Dress", "Entertainment", "Other">>

\* contents of the add form that are submitted: <<amount text, category, date>>;
\* the date field holds a day or, when cleared, the empty string
SubmitInputs ==
    {<<<<"1", "2", "a">>, CATEGORIES[2], <<2024, 7, 10>>>>,
     <<<<"5">>, CATEGORIES[1], <<>>>>,
     <<<<>>, CATEGORIES[1], <<2024, 7, 10>>>>,
     <<<<"a">>, CATEGORIES[1], <<2024, 7, 10>>>>}

\* texts of the two target fields
TargetTexts == {<<>>, <<"-", "5">>, <<"3">>}

Pages == {"summary", "add", "history", "settings"}

\* ids a delete is asked for: every Date.now() of this session and of earlier ones
Ids == (0 - 2)..MaxClock

\* expenses an earlier session stored
StoredA == [id |-> 0 - 1, amount |-> 100, category |-> "Food", date |-> <<2024, 7, 1>>]
StoredB == [id |-> 0, amount |-> 40, category |-> "Misc", date |-> <<2024, 7, 10>>]
StoredC == [id |-> 0 - 2, amount |-> 7, category |-> "Food", date |-> <<2024, 7, 5>>]

\* values the store may hold for the expenses property
StoredExpenses ==
    {Undefined, JNull, JArr(<<>>)}
        \cup {JArr(ExpensesToJSON(l)) :
                l \in {<<StoredA>>, <<StoredB, StoredA>>, <<StoredA, StoredB>>}}

\* values the store may hold for a target property
StoredTargets == {Undefined, JNull, JNum(0), JNum(300), JNum(0 - 5)}

\* every stored value loadData is given
StoredRecords ==
    {Absent, Corrupt, NullText}
        \cup {[kind |-> "object",
               data |-> [expenses |-> e, weeklyTarget |-> w, monthlyTarget |-> m]] :
                e \in StoredExpenses, w \in StoredTargets, m \in StoredTargets}

\* the stored values the application is started from
InitialStores ==
    {Absent, Corrupt}
        \cup {[kind |-> "object",
               data |-> [expenses |-> e, weeklyTarget |-> JNum(300),
                         monthlyTarget |-> Undefined]] :
                e \in {JArr(ExpensesToJSON(<<StoredB, StoredA>>)),
                       JArr(ExpensesToJSON(<<StoredA, StoredB>>)),
                       JArr(ExpensesToJSON(<<StoredA, StoredB, StoredC>>))}}

-----------------------------------------------------------------------------
(* The App component *)

NoResult == [t |-> "none"]

Init ==
    /\ storage \in InitialStores
    /\ expenses = <<>>
    /\ weeklyTarget = 0
    /\ monthlyTarget = 0
    /\ activePage = "summary"
    /\ clock = 1
    /\ today = <<2024, 7, 10>>
    /\ phase = "boot"
    /\ lastOp = "none"
    /\ wrote = FALSE
    /\ result = NoResult

\* The mount: the load effect sets the state from loadData(); the save effect
\* of the first render sees ([], 0, 0) and writes nothing; the save effect of
\* the render that follows sees the loaded state.
Mount ==
    /\ phase = "boot"
    /\ LET data == LoadData(storage)
       IN  /\ expenses' = data.expenses
           /\ weeklyTarget' = data.weeklyTarget
           /\ monthlyTarget' = data.monthlyTarget
           /\ storage' = SaveEffect(data.expenses, data.weeklyTarget, data.monthlyTarget)
           /\ wrote' = ShouldSave(data.expenses, data.weeklyTarget, data.monthlyTarget)
    /\ lastOp' = "mount"
    /\ phase' = "running"
    /\ UNCHANGED <<activePage, clock, today, result>>

\* the guard of handleSubmit: !newExpense.amount || isNaN(parseFloat(newExpense.amount))
HandleSubmitRejects(text) == text = <<>> \/ IsNaN(ParseFloat(text))

\* the object handleAddExpense appends
NewExpense(text, category, date) ==
    [id |-> clock, amount |-> ParseFloat(text)[1], category |-> category, date |-> date]

\* the lists handleAddExpense may leave
HandleAddExpense(text, category, date) ==
    SortOutcomes(Append(expenses, NewExpense(text, category, date)))

\* handleSubmit without its guard, the amount read as parseFloat(amount) || 0
HandleSubmitUnguarded(text, category, date) ==
    /\ phase = "running"
    /\ activePage = "add"
    /\ lastOp' = "add"
    /\ UNCHANGED <<weeklyTarget, monthlyTarget, clock, today, phase, result>>
    /\ Len(expenses) < MaxExpenses
    /\ expenses' \in SortOutcomes(Append(expenses,
            [id |-> clock, amount |-> ParseFloatOr0(text),
             category |-> category, date |-> date]))
    /\ activePage' = "history"
    /\ storage' = SaveEffect(expenses', weeklyTarget, monthlyTarget)
    /\ wrote' = ShouldSave(expenses', weeklyTarget, monthlyTarget)

\* AddExpensePage.handleSubmit, with handleAddExpense and the save effect
HandleSubmit(text, category, date) ==
    /\ phase = "running"
    /\ activePage = "add"
    /\ lastOp' = IF HandleSubmitRejects(text) THEN "rejected" ELSE "add"
    /\ UNCHANGED <<weeklyTarget, monthlyTarget, clock, today, phase, result>>
    /\ IF HandleSubmitRejects(text)
       THEN /\ UNCHANGED <<storage, expenses, activePage>>
            /\ wrote' = FALSE
       ELSE /\ Len(expenses) < MaxExpenses
            /\ expenses' \in HandleAddExpense(text, category, date)
            /\ activePage' = "history"
            /\ storage' = SaveEffect(expenses', weeklyTarget, monthlyTarget)
            /\ wrote' = ShouldSave(expenses', weeklyTarget, monthlyTarget)

\* prev.filter(exp => exp.id !== id)
FilterOut(list, id) == SelectSeq(list, LAMBDA e : e.id # id)

\* handleDeleteExpense, with the save effect (filter returns a new array, so
\* the effect runs whether or not an entry was removed)
HandleDeleteExpense(id) ==
    /\ phase = "running"
    /\ activePage = "history"
    /\ expenses' = FilterOut(expenses, id)
    /\ storage' = SaveEffect(expenses', weeklyTarget, monthlyTarget)
    /\ wrote' = ShouldSave(expenses', weeklyTarget, monthlyTarget)
    /\ lastOp' = "delete"
    /\ UNCHANGED <<weeklyTarget, monthlyTarget, activePage, clock, today, phase, result>>

\* SettingsPage.handleWeeklyChange, with the save effect (which runs only when
\* the value differs from the state)
HandleWeeklyChange(text) ==
    /\ phase = "running"
    /\ activePage = "settings"
    /\ LET v == ParseFloatOr0(text)
       IN  /\ weeklyTarget' = v
           /\ storage' = IF v # weeklyTarget
                         THEN SaveEffect(expenses, v, monthlyTarget)
                         ELSE storage
           /\ wrote' = (v # weeklyTarget /\ ShouldSave(expenses, v, monthlyTarget))
    /\ lastOp' = "setWeekly"
    /\ UNCHANGED <<expenses, monthlyTarget, activePage, clock, today, phase, result>>

\* SettingsPage.handleMonthlyChange, with the save effect
HandleMonthlyChange(text) ==
    /\ phase = "running"
    /\ activePage = "settings"
    /\ LET v == ParseFloatOr0(text)
       IN  /\ monthlyTarget' = v
           /\ storage' = IF v # monthlyTarget
                         THEN SaveEffect(expenses, weeklyTarget, v)
                         ELSE storage
           /\ wrote' = (v # monthlyTarget /\ ShouldSave(expenses, weeklyTarget, v))
    /\ lastOp' = "setMonthly"
    /\ UNCHANGED <<expenses, weeklyTarget, activePage, clock, today, phase, result>>

\* Navigation: setActivePage(page)
Navigate(page) ==
    /\ phase = "running"
    /\ activePage' = page
    /\ lastOp' = "navigate"
    /\ wrote' = FALSE
    /\ UNCHANGED <<storage, expenses, weeklyTarget, monthlyTarget, clock, today,
                   phase, result>>

\* a millisecond passes
Tick ==
    /\ phase = "running"
    /\ clock < MaxClock
    /\ clock' = clock + 1
    /\ UNCHANGED <<storage, expenses, weeklyTarget, monthlyTarget, activePage, today,
                   phase, lastOp, wrote, result>>

Next ==
    \/ Mount
    \/ \E in \in SubmitInputs : HandleSubmit(in[1], in[2], in[3])
    \/ \E id \in Ids : HandleDeleteExpense(id)
    \/ \E text \in TargetTexts : HandleWeeklyChange(text)
    \/ \E text \in TargetTexts : HandleMonthlyChange(text)
    \/ \E page \in Pages : Navigate(page)
    \/ Tick

Spec == Init /\ [][Next]_vars

-----------------------------------------------------------------------------
(* The aggregates of the summary page *)

\* getStartOfWeek without the Sunday case: diff = getDate() - day + 1
GetStartOfWeekSundayAhead(now) ==
    LET day == GetDay(MakeDay(now[1], now[2], now[3]))
    IN  MakeDay(now[1], now[2], now[3] - day + 1)

\* getStartOfWeek(now) followed by setHours(0, 0, 0, 0): the day number of the
\* start of the week; setDate(diff) reaches into the month before when diff < 1
GetStartOfWeek(now) ==
    LET day == GetDay(MakeDay(now[1], now[2], now[3]))
        diff == now[3] - day + (IF day = 0 THEN 0 - 6 ELSE 1)
    IN  MakeDay(now[1], now[2], diff)

\* new Date(now.getFullYear(), now.getMonth(), 1)
GetStartOfMonth(now) == MakeDay(now[1], now[2], 1)

\* expenseDate >= start, where expenseDate is new Date(expense.date + 'T00:00:00'):
\* false when the date is invalid
OnOrAfter(expense, start) ==
    LET t == GetTime(expense.date)
    IN  ~IsNaN(t) /\ t[1] >= start

\* CATEGORIES.reduce((acc, cat) => ({...acc, [cat]: 0}), {})
EmptyCatTotals == [c \in {CATEGORIES[i] : i \in 1..Len(CATEGORIES)} |-> 0]

\* a forEach body that adds to the category bucket outside the month test
AggregateStepBucketAlways(acc, expense, startOfWeek, startOfMonth) ==
    LET inMonth == OnOrAfter(expense, startOfMonth)
        inWeek == OnOrAfter(expense, startOfWeek)
        known == expense.category \in DOMAIN acc.categoryTotals
    IN  [weeklySpent |-> IF inWeek THEN acc.weeklySpent + expense.amount
                         ELSE acc.weeklySpent,
         monthlySpent |-> IF inMonth THEN acc.monthlySpent + expense.amount
                          ELSE acc.monthlySpent,
         categoryTotals |->
             IF known
             THEN [acc.categoryTotals EXCEPT
                       ![expense.category] = @ + expense.amount]
             ELSE acc.categoryTotals]

\* a forEach body that tests the week inside the month test
AggregateStepWeekInMonth(acc, expense, startOfWeek, startOfMonth) ==
    LET inMonth == OnOrAfter(expense, startOfMonth)
        inWeek == inMonth /\ OnOrAfter(expense, startOfWeek)
        known == expense.category \in DOMAIN acc.categoryTotals
    IN  [weeklySpent |-> IF inWeek THEN acc.weeklySpent + expense.amount
                         ELSE acc.weeklySpent,
         monthlySpent |-> IF inMonth THEN acc.monthlySpent + expense.amount
                          ELSE acc.monthlySpent,
         categoryTotals |->
             IF inMonth /\ known
             THEN [acc.categoryTotals EXCEPT
                       ![expense.category] = @ + expense.amount]
             ELSE acc.categoryTotals]

\* the body of expenses.forEach
AggregateStep(acc, expense, startOfWeek, startOfMonth) ==
    LET inMonth == OnOrAfter(expense, startOfMonth)
        inWeek == OnOrAfter(expense, startOfWeek)
        known == expense.category \in DOMAIN acc.categoryTotals
    IN  [weeklySpent |-> IF inWeek THEN acc.weeklySpent + expense.amount
                         ELSE acc.weeklySpent,
         monthlySpent |-> IF inMonth THEN acc.monthlySpent + expense.amount
                          ELSE acc.monthlySpent,
         categoryTotals |->
             IF inMonth /\ known
             THEN [acc.categoryTotals EXCEPT
                       ![expense.category] = @ + expense.amount]
             ELSE acc.categoryTotals]

RECURSIVE AggregateLoop(_, _, _)
AggregateLoop(list, startOfWeek, startOfMonth) ==
    IF list = <<>>
    THEN [weeklySpent |-> 0, monthlySpent |-> 0, categoryTotals |-> EmptyCatTotals]
    ELSE AggregateStep(AggregateLoop(SubSeq(list, 1, Len(list) - 1),
                                     startOfWeek, startOfMonth),
                       list[Len(list)], startOfWeek, startOfMonth)

\* the useMemo of App: { weeklySpent, monthlySpent, categoryTotals }
Aggregates(list, now) ==
    AggregateLoop(list, GetStartOfWeek(now), GetStartOfMonth(now))

\* the days "now" ranges over: MaxDays consecutive days from 2024-07-07
Calendar2024 == {<<2024, m, d>> : m \in 6..9, d \in 1..31}

Todays ==
    {n \in Calendar2024 :
        /\ n[3] <= DaysInMonth(n[1], n[2])
        /\ MakeDay(n[1], n[2], n[3]) - MakeDay(2024, 7, 7) \in 0..(MaxDays - 1)}

\* the dates of the expenses given to the aggregates: the Sundays and Mondays
\* around two week starts, the days around a month start, and the empty string
AggDates ==
    {<<2024, 7, 7>>, <<2024, 7, 8>>, <<2024, 7, 28>>, <<2024, 7, 29>>,
     <<2024, 7, 31>>, <<2024, 8, 1>>, <<>>}

\* category and amount of the expenses given to the aggregates; "Misc" is
\* outside CATEGORIES
AggKinds == {<<CATEGORIES[1], 1>>, <<CATEGORIES[2], 2>>, <<"Misc", 4>>}

AggExpenses ==
    {[id |-> 0, amount |-> k[2], category |-> k[1], date |-> d] :
        k \in AggKinds, d \in AggDates}

AggLists == UNION {[1..n -> AggExpenses] : n \in 0..MaxAggLen}

InitAgg ==
    /\ storage = Absent
    /\ expenses \in AggLists
    /\ weeklyTarget = 0
    /\ monthlyTarget = 0
    /\ activePage = "summary"
    /\ clock = 1
    /\ today \in Todays
    /\ phase = "input"
    /\ lastOp = "none"
    /\ wrote = FALSE
    /\ result = NoResult

ComputeAggregates ==
    /\ phase = "input"
    /\ result' = Aggregates(expenses, today)
    /\ phase' = "output"
    /\ UNCHANGED <<storage, expenses, weeklyTarget, monthlyTarget, activePage, clock,
                   today, lastOp, wrote>>

NextAgg == ComputeAggregates

SpecAgg == InitAgg /\ [][NextAgg]_vars

-----------------------------------------------------------------------------
(* loadData on every stored value *)

InitLoad ==
    /\ storage \in StoredRecords
    /\ expenses = <<>>
    /\ weeklyTarget = 0
    /\ monthlyTarget = 0
    /\ activePage = "summary"
    /\ clock = 1
    /\ today = <<2024, 7, 10>>
    /\ phase = "input"
    /\ lastOp = "none"
    /\ wrote = FALSE
    /\ result = NoResult

CallLoadData ==
    /\ phase = "input"
    /\ result' = LoadData(storage)
    /\ phase' = "output"
    /\ UNCHANGED <<storage, expenses, weeklyTarget, monthlyTarget, activePage, clock,
                   today, lastOp, wrote>>

NextLoad == CallLoadData

SpecLoad == InitLoad /\ [][NextLoad]_vars

-----------------------------------------------------------------------------
(* Vocabulary of the properties *)

Mutations == {"add", "delete", "setWeekly", "setMonthly"}

\* the in-memory AppState
AppState ==
    [expenses |-> expenses, weeklyTarget |-> weeklyTarget, monthlyTarget |-> monthlyTarget]

RemoveAt(list, k) == SubSeq(list, 1, k - 1) \o SubSeq(list, k + 1, Len(list))

CountIn(list, e) == Cardinality({i \in 1..Len(list) : list[i] = e})

\* the two lists hold the same entries, each as many times
SameEntries(l1, l2) ==
    /\ Len(l1) = Len(l2)
    /\ \A i \in 1..Len(l1) : CountIn(l1, l1[i]) = CountIn(l2, l1[i])

HasDate(e) == e.date # <<>>

DayOf(e) == MakeDay(e.date[1], e.date[2], e.date[3])

\* descending by date: of two entries that carry a date, the one listed first
\* is dated on or after the other
SortedDescending(list) ==
    \A i, j \in 1..Len(list) :
        (i < j /\ HasDate(list[i]) /\ HasDate(list[j])) => DayOf(list[i]) >= DayOf(list[j])

\* 2024-07-08 was a Monday
IsMonday(n) == (n - MakeDay(2024, 7, 8)) % 7 = 0

\* the most recent Monday at or before the day now
MondayAtOrBefore(now) ==
    LET t == MakeDay(now[1], now[2], now[3])
    IN  CHOOSE n \in (t - 6)..t : IsMonday(n)

\* sum of the amounts of the entries dated in from..(upto - 1)
RECURSIVE SumBetween(_, _, _)
SumBetween(list, from, upto) ==
    IF list = <<>> THEN 0
    ELSE (IF HasDate(Head(list)) /\ DayOf(Head(list)) >= from /\ DayOf(Head(list)) < upto
          THEN Head(list).amount ELSE 0)
         + SumBetween(Tail(list), from, upto)

\* a day after every modelled date
Forever == MakeDay(2025, 1, 1)

\* the entry is dated in the month of now or later
InMonthOrLater(e, now) ==
    /\ HasDate(e)
    /\ (e.date[1] > now[1] \/ (e.date[1] = now[1] /\ e.date[2] >= now[2]))

RECURSIVE SumInMonthOrLater(_, _)
SumInMonthOrLater(list, now) ==
    IF list = <<>> THEN 0
    ELSE (IF InMonthOrLater(Head(list), now) THEN Head(list).amount ELSE 0)
         + SumInMonthOrLater(Tail(list), now)

IsCategory(c) == \E i \in 1..Len(CATEGORIES) : CATEGORIES[i] = c

\* sum of the amounts of the entries of the month window whose category is
\* not one of CATEGORIES
RECURSIVE SumUncategorised(_, _)
SumUncategorised(list, now) ==
    IF list = <<>> THEN 0
    ELSE (IF InMonthOrLater(Head(list), now) /\ ~IsCategory(Head(list).category)
          THEN Head(list).amount ELSE 0)
         + SumUncategorised(Tail(list), now)

RECURSIVE SumCategories(_, _)
SumCategories(totals, n) ==
    IF n = 0 THEN 0 ELSE totals[CATEGORIES[n]] + SumCategories(totals, n - 1)

-----------------------------------------------------------------------------
(* Properties *)

\* C1: after every mutation (add, delete, set weekly target, set monthly
\* target) the persisted record equals the in-memory AppState, also when the
\* mutation leaves the list empty and both targets at 0.  Stated on the states
\* whose targets are not negative.
C1_PersistedEqualsMemory ==
    (phase = "running" /\ lastOp \in Mutations /\ weeklyTarget >= 0 /\ monthlyTarget >= 0)
        => storage = Stringify(AppState)

\* C2: after any sequence of adds and deletes that follows the startup, from
\* whatever order the stored record lists its expenses in, the in-memory list
\* is sorted descending by date.
C2_SortedAfterAddDelete ==
    (phase = "running" /\ lastOp \in {"add", "delete"}) => SortedDescending(expenses)

\* C3: deleteExpense(id) removes exactly one entry whose id is id when there is
\* one, leaving the others in their order, and changes nothing when there is
\* none; ids come from the clock, which need not advance between two adds.
C3_DeleteRemovesExactlyOne ==
    [][\A id \in Ids :
          HandleDeleteExpense(id) =>
              IF \E k \in 1..Len(expenses) : expenses[k].id = id
              THEN \E k \in 1..Len(expenses) :
                       expenses[k].id = id /\ expenses' = RemoveAt(expenses, k)
              ELSE expenses' = expenses]_vars

\* C4: after setWeeklyTarget or setMonthlyTarget neither target is negative, in
\* memory and in the persisted record.
C4_TargetsNeverNegative ==
    (phase = "running" /\ lastOp \in {"setWeekly", "setMonthly"})
        => /\ weeklyTarget >= 0
           /\ monthlyTarget >= 0
           /\ (storage.kind = "object" /\ storage.data.weeklyTarget.t = "number")
                  => storage.data.weeklyTarget.v >= 0
           /\ (storage.kind = "object" /\ storage.data.monthlyTarget.t = "number")
                  => storage.data.monthlyTarget.v >= 0

\* C5: load() returns the defaults when the key is absent or the text does not
\* parse; otherwise it returns every field the record holds unchanged and
\* replaces every missing field by its default.  A field held with the value
\* null is left out of the statement.
C5_LoadKeepsPresentFields ==
    phase = "output" =>
        IF storage.kind # "object" THEN result = DefaultData
        ELSE LET data == storage.data
             IN  /\ data.expenses.t = "array"
                        => ExpensesToJSON(result.expenses) = data.expenses.v
                 /\ data.expenses = Undefined => result.expenses = <<>>
                 /\ data.weeklyTarget.t = "number"
                        => result.weeklyTarget = data.weeklyTarget.v
                 /\ data.weeklyTarget = Undefined
                        => result.weeklyTarget = DefaultWeeklyTarget
                 /\ data.monthlyTarget.t = "number"
                        => result.monthlyTarget = data.monthlyTarget.v
                 /\ data.monthlyTarget = Undefined
                        => result.monthlyTarget = DefaultMonthlyTarget

\* C6: an add whose amount text does not parse as a number changes neither the
\* expense list, nor a target, nor the persisted record, and issues no write.
C6_RejectedAddChangesNothing ==
    [][\A in \in SubmitInputs :
          (HandleSubmit(in[1], in[2], in[3]) /\ IsNaN(ParseFloat(in[1])))
              => /\ UNCHANGED <<expenses, weeklyTarget, monthlyTarget, storage>>
                 /\ wrote' = FALSE]_vars

\* a submit was rejected in a state that holds expenses: the page is still the
\* add page, and nothing was written
C6_Witness ==
    /\ phase = "running"
    /\ lastOp = "rejected"
    /\ activePage = "add"
    /\ wrote = FALSE
    /\ Len(expenses) > 0
    /\ storage = Stringify(AppState)

C8_WindowsAndSums ==
    phase = "output" =>
        /\ GetStartOfWeek(today) = MondayAtOrBefore(today)
        /\ result.weeklySpent = SumBetween(expenses, MondayAtOrBefore(today), Forever)
        /\ result.monthlySpent = SumInMonthOrLater(expenses, today)

\* now is Wednesday 2024-07-10: the expense of 2024-07-07 counts for the month
\* and not for the week, the one of 2024-07-08 for both
C8_Witness ==
    /\ phase = "output"
    /\ today = <<2024, 7, 10>>
    /\ Len(expenses) = 2
    /\ expenses[1].date = <<2024, 7, 7>> /\ expenses[1].amount = 1
    /\ expenses[2].date = <<2024, 7, 8>> /\ expenses[2].amount = 2
    /\ result.weeklySpent = 2
    /\ result.monthlySpent = 3

C10_WeeklyWithinMonthly ==
    phase = "output" => result.weeklySpent <= result.monthlySpent

\* C10 as amended: when the Monday that starts the week lies in now's month,
\* monthlySpent is weeklySpent plus the amounts of the expenses dated from day 1
\* of the month to the day before that Monday (so weeklySpent <= monthlySpent
\* for positive amounts); when it lies in the month before, weeklySpent is
\* monthlySpent plus the amounts of the expenses dated from that Monday to the
\* last day of that month.
C10_WeeklyWithinMonthlyAmended ==
    phase = "output" =>
        LET monday == MondayAtOrBefore(today)
            first == MakeDay(today[1], today[2], 1)
        IN  /\ monday >= first
                   => result.monthlySpent
                          = result.weeklySpent + SumBetween(expenses, first, monday)
            /\ monday < first
                   => result.weeklySpent
                          = result.monthlySpent + SumBetween(expenses, monday, first)

\* now is Thursday 2024-08-01, the week started on Monday 2024-07-29: the
\* expense of 2024-07-29 counts for the week and not for the month
C10_Witness ==
    /\ phase = "output"
    /\ today = <<2024, 8, 1>>
    /\ Len(expenses) = 1
    /\ expenses[1].date = <<2024, 7, 29>>
    /\ result.weeklySpent = expenses[1].amount
    /\ result.monthlySpent = 0

=============================================================================
